---- MODULE Spec2Model ----
(***************************************************************************)
(* Model of the command-line calculator (Calculator.go): the REPL loop of  *)
(* main and the pipeline tokenize -> shuntingYard -> evalRPN.              *)
(*                                                                         *)
(* Strings. A Go string is a sequence of one-character strings; the lines  *)
(* are ASCII, and the white space in them is the blank and the tab.        *)
(* Error values are their messages without accents and without the        *)
(* formatted operand; "" is nil.                                           *)
(*                                                                         *)
(* Numbers. A float64 is an exact rational while numerator and denominator *)
(* stay within Lim. A result outside that range, an irrational one, an     *)
(* infinity or a NaN is kept as the unevaluated application that produced  *)
(* it (Sym); such a value is compared structurally, is never taken to be   *)
(* zero and never to be negative. Rounding of float64 is not modelled.     *)
(***************************************************************************)
EXTENDS Integers, Sequences, FiniteSets, TLC

VARIABLES stdin, pc, line, toks, rpn, res, err, lastAns, out

vars == <<stdin, pc, line, toks, rpn, res, err, lastAns, out>>

(***************************************************************************)
(* Bounds of the model.                                                    *)
(***************************************************************************)
Lim == 10000
MaxLines == 3
MaxTokens == 8
MaxSignTokens == 5
MaxChars == 5
MaxAffix == 2

(***************************************************************************)
(* Characters and strings.                                                 *)
(***************************************************************************)
Digits == {"0", "1", "2", "3", "4", "5", "6", "7", "8", "9"}
LowerLetters == <<"a", "b", "c", "d", "e", "f", "g", "h", "i", "j", "k", "l", "m",
                  "n", "o", "p", "q", "r", "s", "t", "u", "v", "w", "x", "y", "z">>
UpperLetters == <<"A", "B", "C", "D", "E", "F", "G", "H", "I", "J", "K", "L", "M",
                  "N", "O", "P", "Q", "R", "S", "T", "U", "V", "W", "X", "Y", "Z">>

Range(f) == {f[i] : i \in DOMAIN f}

IsDigit(ch) == ch \in Digits
IsLetter(ch) == ch \in Range(LowerLetters) \cup Range(UpperLetters)
IsSpace(ch) == ch \in {" ", "\t"}

isIdentStart(r) == IsLetter(r) \/ r = "_"
isIdent(r) == IsLetter(r) \/ IsDigit(r) \/ r = "_"

ToLowerCh(ch) ==
    IF ch \in Range(UpperLetters)
    THEN LowerLetters[CHOOSE i \in DOMAIN UpperLetters : UpperLetters[i] = ch]
    ELSE ch

ToLower(s) == [i \in DOMAIN s |-> ToLowerCh(s[i])]

RECURSIVE TrimLeft(_)
TrimLeft(s) == IF s # <<>> /\ IsSpace(Head(s)) THEN TrimLeft(Tail(s)) ELSE s

RECURSIVE TrimRight(_)
TrimRight(s) ==
    IF s # <<>> /\ IsSpace(s[Len(s)]) THEN TrimRight(SubSeq(s, 1, Len(s) - 1)) ELSE s

TrimSpace(s) == TrimRight(TrimLeft(s))

HasPrefix(s, p) == Len(s) >= Len(p) /\ SubSeq(s, 1, Len(p)) = p

(***************************************************************************)
(* float64 values.                                                         *)
(***************************************************************************)
Abs(n) == IF n < 0 THEN -n ELSE n

RECURSIVE Gcd(_, _)
Gcd(a, b) == IF b = 0 THEN a ELSE Gcd(b, a % b)

\* the rational n/d in lowest terms, d > 0
Rat(n, d) ==
    LET g == Gcd(Abs(n), Abs(d))
        s == IF d < 0 THEN -1 ELSE 1
    IN  [k |-> "rat", n |-> s * (n \div g), d |-> s * (d \div g), op |-> "", args |-> <<>>]

Num(n) == Rat(n, 1)

\* a float64 the model does not compute: the application op(args)
Sym(o, as) == [k |-> "sym", n |-> 0, d |-> 1, op |-> o, args |-> as]

Small(v) == v.k = "rat" /\ Abs(v.n) <= Lim /\ v.d <= Lim

IsZero(v) == v.k = "rat" /\ v.n = 0
IsInt(v) == v.k = "rat" /\ v.d = 1
Less(a, b) == a.n * b.d < b.n * a.d

Add(a, b) ==
    IF Small(a) /\ Small(b) THEN Rat(a.n * b.d + b.n * a.d, a.d * b.d)
    ELSE Sym("+", <<a, b>>)

Sub(a, b) ==
    IF Small(a) /\ Small(b) THEN Rat(a.n * b.d - b.n * a.d, a.d * b.d)
    ELSE Sym("-", <<a, b>>)

Mul(a, b) ==
    IF Small(a) /\ Small(b) THEN Rat(a.n * b.n, a.d * b.d)
    ELSE Sym("*", <<a, b>>)

\* a / b in float64: b = 0 gives an infinity or a NaN, kept unevaluated
Div(a, b) ==
    IF Small(a) /\ Small(b) /\ b.n # 0 THEN Rat(a.n * b.d, a.d * b.n)
    ELSE Sym("/", <<a, b>>)

Neg(b) == IF b.k = "rat" THEN Rat(-b.n, b.d) ELSE Sym("u-", <<b>>)

\* a^e for an integer e >= 0 by repeated multiplication
RECURSIVE PowNat(_, _)
PowNat(a, e) == IF e = 0 THEN Num(1) ELSE Mul(a, PowNat(a, e - 1))

\* math.Pow(a, b)
Pow(a, b) ==
    LET p == IF b.n >= 0 THEN PowNat(a, b.n) ELSE PowNat(Rat(a.d, a.n), -b.n)
    IN  IF Small(a) /\ IsInt(b) /\ Abs(b.n) <= 32 /\ (a.n # 0 \/ b.n >= 0) /\ p.k = "rat"
        THEN p
        ELSE Sym("^", <<a, b>>)

(***************************************************************************)
(* strconv.ParseFloat(s, 64) on the texts tokenize can emit: an optional   *)
(* integer part, an optional '.' and fraction (one digit at least in the   *)
(* two), an optional exponent e/E with optional sign and one digit at      *)
(* least. A value too large for a float64 is a range error.                *)
(***************************************************************************)
RECURSIVE DigitsEnd(_, _)
DigitsEnd(s, i) == IF i <= Len(s) /\ IsDigit(s[i]) THEN DigitsEnd(s, i + 1) ELSE i

DigitVal(ch) == CHOOSE v \in 0..9 : <<"0", "1", "2", "3", "4", "5", "6", "7", "8", "9">>[v + 1] = ch

\* value of a digit string of at most 8 digits
RECURSIVE DecVal(_)
DecVal(s) == IF s = <<>> THEN 0 ELSE 10 * DecVal(SubSeq(s, 1, Len(s) - 1)) + DigitVal(s[Len(s)])

RECURSIVE Pow10(_)
Pow10(n) == IF n = 0 THEN 1 ELSE 10 * Pow10(n - 1)

RECURSIVE StripZeros(_)
StripZeros(s) == IF s # <<>> /\ Head(s) = "0" THEN StripZeros(Tail(s)) ELSE s

\* the value of the digits mant scaled by 10^scale
pfValue(mant, scale) ==
    \* decimal magnitude: the value lies in [10^(mag-1), 10^mag) with mag = Len(mant) + scale
    IF mant = <<>> THEN [val |-> Num(0), err |-> ""]
    ELSE IF Len(mant) + scale > 309
         THEN [val |-> Sym("+Inf", <<>>), err |-> "strconv.ParseFloat: value out of range"]
    ELSE IF Len(mant) + scale < -330 THEN [val |-> Num(0), err |-> ""]
    ELSE IF Len(mant) <= 8 /\ scale >= 0 /\ Len(mant) + scale <= 9
         THEN [val |-> Num(DecVal(mant) * Pow10(scale)), err |-> ""]
    ELSE IF Len(mant) <= 8 /\ scale < 0 /\ scale >= -8
         THEN [val |-> Rat(DecVal(mant), Pow10(-scale)), err |-> ""]
    \* a literal outside the computed range: its leading digits and its scale
    ELSE [val |-> Sym("lit", <<Num(DecVal(SubSeq(mant, 1, IF Len(mant) < 8 THEN Len(mant) ELSE 8))),
                               Num(Len(mant)), Num(scale)>>),
          err |-> ""]

\* the exponent written as the digits expDigits, negative if neg
pfExponent(expDigits, neg) ==
    (IF neg THEN -1 ELSE 1) * (IF Len(expDigits) <= 4 THEN DecVal(expDigits) ELSE 99999)

\* the parts of the text: integer part, fraction, exponent digits, exponent sign
pfParts(intPart, fracPart, expDigits, neg, syntaxOK) ==
    IF ~syntaxOK THEN [val |-> Num(0), err |-> "strconv.ParseFloat: invalid syntax"]
    ELSE pfValue(StripZeros(intPart \o fracPart),
                 pfExponent(StripZeros(expDigits), neg) - Len(fracPart))

\* i1: end of the integer part; i2: end of the fraction; i3: start of the
\* exponent digits; i4: their end
pfSplit(s, i1, i2, i3, i4) ==
    pfParts(SubSeq(s, 1, i1 - 1),
            IF i2 > i1 THEN SubSeq(s, i1 + 1, i2 - 1) ELSE <<>>,
            SubSeq(s, i3, i4 - 1),
            i3 = i2 + 2 /\ s[i2 + 1] = "-",
            /\ (i1 - 1) + (IF i2 > i1 THEN i2 - i1 - 1 ELSE 0) >= 1
            /\ (i3 > i2 => i4 > i3)
            /\ i4 = Len(s) + 1)

pfExp(s, i1, i2, i3) == pfSplit(s, i1, i2, i3, IF i3 > i2 THEN DigitsEnd(s, i3) ELSE i2)

pfFrac(s, i1, i2) ==
    pfExp(s, i1, i2,
          IF i2 <= Len(s) /\ s[i2] \in {"e", "E"}
          THEN (IF i2 + 1 <= Len(s) /\ s[i2 + 1] \in {"+", "-"} THEN i2 + 2 ELSE i2 + 1)
          ELSE i2)

pfInt(s, i1) == pfFrac(s, i1, IF i1 <= Len(s) /\ s[i1] = "." THEN DigitsEnd(s, i1 + 1) ELSE i1)

ParseFloat(s) == pfInt(s, DigitsEnd(s, 1))

(***************************************************************************)
(* Token types and the fixed tables.                                       *)
(***************************************************************************)
tNumber == "tNumber"
tOp == "tOp"
tLParen == "tLParen"
tRParen == "tRParen"
tFunc == "tFunc"
tComma == "tComma"
tIdent == "tIdent"

token(typ, val) == [typ |-> typ, val |-> val]

\* the keys of the ops map
opAdd == <<"+">>
opSub == <<"-">>
opMul == <<"*">>
opDiv == <<"/">>
opPow == <<"^">>
opNeg == <<"u", "-">>
opPos == <<"u", "+">>

opDesc(prec, rightAssoc, unary) == [prec |-> prec, rightAssoc |-> rightAssoc, unary |-> unary]

ops(o) ==
    CASE o = opAdd -> opDesc(1, FALSE, FALSE)
      [] o = opSub -> opDesc(1, FALSE, FALSE)
      [] o = opMul -> opDesc(2, FALSE, FALSE)
      [] o = opDiv -> opDesc(2, FALSE, FALSE)
      [] o = opPow -> opDesc(3, TRUE, FALSE)
      [] o = opNeg -> opDesc(4, TRUE, TRUE)
      [] o = opPos -> opDesc(4, TRUE, TRUE)
      \* a key the map does not hold reads as the zero value
      [] OTHER -> opDesc(0, FALSE, FALSE)

\* ops[o].fn(a, b)
opFn(o, a, b) ==
    CASE o = opAdd -> Add(a, b)
      [] o = opSub -> Sub(a, b)
      [] o = opMul -> Mul(a, b)
      [] o = opDiv -> Div(a, b)
      [] o = opPow -> Pow(a, b)
      [] o = opNeg -> Neg(b)
      [] o = opPos -> b

fSin == <<"s", "i", "n">>
fCos == <<"c", "o", "s">>
fTan == <<"t", "a", "n">>
fSqrt == <<"s", "q", "r", "t">>
fLog == <<"l", "o", "g">>
fLn == <<"l", "n">>
fAbs == <<"a", "b", "s">>
fFloor == <<"f", "l", "o", "o", "r">>
fCeil == <<"c", "e", "i", "l">>
fRound == <<"r", "o", "u", "n", "d">>
fMax == <<"m", "a", "x">>
fMin == <<"m", "i", "n">>

\* the keys of the functions map
functionNames == {fSin, fCos, fTan, fSqrt, fLog, fLn, fAbs, fFloor, fCeil, fRound, fMax, fMin}

cPi == <<"p", "i">>
cE == <<"e">>
idAns == <<"a", "n", "s">>

\* the constants map
constantNames == {cPi, cE}
constants(c) == IF c = cPi THEN Sym("pi", <<>>) ELSE Sym("e", <<>>)

Ok(v) == [val |-> v, err |-> ""]
Fail(e) == [val |-> Num(0), err |-> e]

\* exact square root of a natural number below Lim, or -1
ISqrt(n) == IF \E r \in 0..100 : r * r = n THEN CHOOSE r \in 0..100 : r * r = n ELSE -1

Floor(a) == IF a.k = "rat" THEN Num(a.n \div a.d) ELSE Sym("floor", <<a>>)
Ceil(a) == IF a.k = "rat" THEN Num(-((-a.n) \div a.d)) ELSE Sym("ceil", <<a>>)
Round(a) ==
    IF Small(a)
    THEN Num((IF a.n < 0 THEN -1 ELSE 1) * ((2 * Abs(a.n) + a.d) \div (2 * a.d)))
    ELSE Sym("round", <<a>>)

\* functions[name](args...)
functions(name, a) ==
    CASE name = fSqrt ->
            IF a[1].k = "rat" /\ a[1].n < 0 THEN Fail("sqrt de numero negativo")
            ELSE IF Small(a[1]) /\ ISqrt(a[1].n) >= 0 /\ ISqrt(a[1].d) >= 0
                 THEN Ok(Rat(ISqrt(a[1].n), ISqrt(a[1].d)))
            ELSE Ok(Sym("sqrt", a))
      [] name = fAbs -> Ok(IF a[1].k = "rat" THEN Rat(Abs(a[1].n), a[1].d) ELSE Sym("abs", a))
      [] name = fFloor -> Ok(Floor(a[1]))
      [] name = fCeil -> Ok(Ceil(a[1]))
      [] name = fRound -> Ok(Round(a[1]))
      [] name = fSin -> Ok(IF IsZero(a[1]) THEN Num(0) ELSE Sym("sin", a))
      [] name = fCos -> Ok(IF IsZero(a[1]) THEN Num(1) ELSE Sym("cos", a))
      [] name = fTan -> Ok(IF IsZero(a[1]) THEN Num(0) ELSE Sym("tan", a))
      [] name = fLog -> Ok(IF a[1] = Num(1) THEN Num(0) ELSE Sym("log", a))
      [] name = fLn -> Ok(IF a[1] = Num(1) THEN Num(0) ELSE Sym("ln", a))
      [] name = fMax ->
            IF Len(a) < 2 THEN Fail("max precisa de 2 argumentos")
            ELSE IF a[1].k = "rat" /\ a[2].k = "rat"
                 THEN Ok(IF Less(a[2], a[1]) THEN a[1] ELSE a[2])
            ELSE Ok(Sym("max", a))
      [] name = fMin ->
            IF Len(a) < 2 THEN Fail("min precisa de 2 argumentos")
            ELSE IF a[1].k = "rat" /\ a[2].k = "rat"
                 THEN Ok(IF Less(a[1], a[2]) THEN a[1] ELSE a[2])
            ELSE Ok(Sym("min", a))

(***************************************************************************)
(* tokenize                                                                *)
(***************************************************************************)
\* the inner loop of the numeral scan: the index after the numeral
RECURSIVE numberEnd(_, _, _)
numberEnd(s, j, hasE) ==
    IF j > Len(s) THEN j
    ELSE IF IsDigit(s[j]) \/ s[j] = "." THEN numberEnd(s, j + 1, hasE)
    ELSE IF s[j] \in {"e", "E"} /\ ~hasE
         THEN numberEnd(s, IF j + 1 <= Len(s) /\ s[j + 1] \in {"+", "-"} THEN j + 2 ELSE j + 1, TRUE)
    ELSE j

RECURSIVE identEnd(_, _)
identEnd(s, j) == IF j <= Len(s) /\ isIdent(s[j]) THEN identEnd(s, j + 1) ELSE j

\* signOp, were a left parenthesis not taken as a unary context
signOpAfterOperatorOnly(ch, prevType, n) ==
    IF prevType = tOp \/ n = 0
    THEN (IF ch = "-" THEN opNeg ELSE opPos)
    ELSE <<ch>>

\* + or - seen with prevType the type of the last token and n tokens emitted
signOp(ch, prevType, n) ==
    IF prevType = tOp \/ prevType = tLParen \/ n = 0
    THEN (IF ch = "-" THEN opNeg ELSE opPos)
    ELSE <<ch>>

TokOk(ts) == [toks |-> ts, err |-> ""]
TokFail(e) == [toks |-> <<>>, err |-> e]

\* the loop of tokenize from index i
RECURSIVE tokenizeFrom(_, _, _, _)
tokenizeFrom(s, i, ts, prevType) ==
    IF i > Len(s) THEN TokOk(ts)
    ELSE LET ch == s[i] IN
    IF IsSpace(ch) THEN tokenizeFrom(s, i + 1, ts, prevType)
    ELSE IF IsDigit(ch) \/ ch = "."
         THEN LET j == numberEnd(s, i + 1, FALSE)
              IN  tokenizeFrom(s, j, Append(ts, token(tNumber, SubSeq(s, i, j - 1))), tNumber)
    ELSE IF ch \in {"+", "-"}
         THEN tokenizeFrom(s, i + 1, Append(ts, token(tOp, signOp(ch, prevType, Len(ts)))), tOp)
    ELSE IF ch \in {"*", "/", "^"}
         THEN tokenizeFrom(s, i + 1, Append(ts, token(tOp, <<ch>>)), tOp)
    ELSE IF ch = "(" THEN tokenizeFrom(s, i + 1, Append(ts, token(tLParen, <<"(">>)), tLParen)
    ELSE IF ch = ")" THEN tokenizeFrom(s, i + 1, Append(ts, token(tRParen, <<")">>)), tRParen)
    ELSE IF ch = "," THEN tokenizeFrom(s, i + 1, Append(ts, token(tComma, <<",">>)), tComma)
    ELSE IF isIdentStart(ch)
         THEN LET j == identEnd(s, i + 1)
                  low == ToLower(SubSeq(s, i, j - 1))
              IN  IF low \in functionNames
                  THEN tokenizeFrom(s, j, Append(ts, token(tFunc, low)), tIdent)
                  ELSE IF low \in constantNames \/ low = idAns
                  THEN tokenizeFrom(s, j, Append(ts, token(tIdent, low)), tIdent)
                  ELSE TokFail("identificador desconhecido")
    ELSE TokFail("caractere invalido")

tokenize(input) == tokenizeFrom(TrimSpace(input), 1, <<>>, tOp)

(***************************************************************************)
(* shuntingYard                                                            *)
(***************************************************************************)
\* the arity table of shuntingYard
arityNames == {fSin, fCos, fTan, fSqrt, fLog, fLn, fAbs, fFloor, fCeil, fRound, fMax, fMin}

Top(stack) == stack[Len(stack)]
Pop(stack) == SubSeq(stack, 1, Len(stack) - 1)

SyState(output, stack, e) == [output |-> output, stack |-> stack, err |-> e]

\* pop to the output until a left parenthesis is on top or the stack is empty
RECURSIVE popToLParen(_, _)
popToLParen(output, stack) ==
    IF Len(stack) > 0 /\ Top(stack).typ # tLParen
    THEN popToLParen(Append(output, Top(stack)), Pop(stack))
    ELSE SyState(output, stack, "")

\* popsBefore, were associativity ignored
popsBeforeAnyAssoc(top, curr) == ops(top).prec >= ops(curr).prec

\* does the operator on top of the stack leave before curr is pushed
popsBefore(top, curr) ==
    \/ ops(top).prec > ops(curr).prec
    \/ (ops(top).prec = ops(curr).prec /\ ~ops(curr).rightAssoc)

RECURSIVE popOperators(_, _, _)
popOperators(output, stack, curr) ==
    IF Len(stack) > 0 /\ Top(stack).typ = tOp /\ popsBefore(Top(stack).val, curr)
    THEN popOperators(Append(output, Top(stack)), Pop(stack), curr)
    ELSE SyState(output, stack, "")

syComma(output, stack) ==
    LET p == popToLParen(output, stack)
    IN  IF Len(p.stack) = 0 THEN SyState(p.output, p.stack, "virgula fora de funcao") ELSE p

syOp(output, stack, t) ==
    LET p == popOperators(output, stack, t.val)
    IN  SyState(p.output, Append(p.stack, t), "")

syRParen(output, stack) ==
    LET p == popToLParen(output, stack)
        rest == Pop(p.stack)
    IN  IF Len(p.stack) = 0 THEN SyState(p.output, p.stack, "parenteses desbalanceados")
        ELSE IF Len(rest) > 0 /\ Top(rest).typ = tFunc
             THEN SyState(Append(p.output, Top(rest)), Pop(rest), "")
        ELSE SyState(p.output, rest, "")

\* one iteration of the loop over the tokens
syStep(s, t) ==
    CASE t.typ \in {tNumber, tIdent} -> SyState(Append(s.output, t), s.stack, "")
      [] t.typ = tFunc -> SyState(s.output, Append(s.stack, t), "")
      [] t.typ = tComma -> syComma(s.output, s.stack)
      [] t.typ = tOp -> syOp(s.output, s.stack, t)
      [] t.typ = tLParen -> SyState(s.output, Append(s.stack, t), "")
      [] t.typ = tRParen -> syRParen(s.output, s.stack)

\* the loop over the first n tokens; it returns at the first error
RECURSIVE syLoop(_, _)
syLoop(ts, n) ==
    IF n = 0 THEN SyState(<<>>, <<>>, "")
    ELSE LET s == syLoop(ts, n - 1)
         IN  IF s.err # "" THEN s ELSE syStep(s, ts[n])

\* syDrain, were a left parenthesis left on the stack not looked for
RECURSIVE syDrainUnchecked(_, _)
syDrainUnchecked(output, stack) ==
    IF Len(stack) = 0 THEN [output |-> output, stack |-> stack, err |-> ""]
    ELSE syDrainUnchecked(Append(output, stack[Len(stack)]), SubSeq(stack, 1, Len(stack) - 1))

\* the final loop that empties the stack
RECURSIVE syDrain(_, _)
syDrain(output, stack) ==
    IF Len(stack) = 0 THEN SyState(output, stack, "")
    ELSE IF Top(stack).typ = tLParen THEN SyState(output, stack, "parenteses desbalanceados")
    ELSE syDrain(Append(output, Top(stack)), Pop(stack))

RpnOk(output) == [rpn |-> output, err |-> ""]
RpnFail(e) == [rpn |-> <<>>, err |-> e]

shuntingYard(ts) ==
    LET s == syLoop(ts, Len(ts))
        d == syDrain(s.output, s.stack)
    IN  IF s.err # "" THEN RpnFail(s.err)
        ELSE IF d.err # "" THEN RpnFail(d.err)
        ELSE IF \E i \in DOMAIN d.output :
                    d.output[i].typ = tFunc /\ d.output[i].val \notin arityNames
             THEN RpnFail("funcao nao suportada")
        ELSE RpnOk(d.output)

(***************************************************************************)
(* evalRPN                                                                 *)
(***************************************************************************)
EvState(st, e) == [st |-> st, err |-> e]

nargsOf(name) == IF name \in {fMax, fMin} THEN 2 ELSE 1

\* evNumber, were the error of ParseFloat dropped
evNumberUnchecked(st, t) == [st |-> Append(st, ParseFloat(t.val).val), err |-> ""]

evNumber(st, t) ==
    LET p == ParseFloat(t.val)
    IN  IF p.err # "" THEN EvState(st, p.err) ELSE EvState(Append(st, p.val), "")

evIdent(st, t, ans) ==
    IF t.val = idAns THEN EvState(Append(st, ans), "")
    ELSE IF t.val \in constantNames THEN EvState(Append(st, constants(t.val)), "")
    ELSE EvState(st, "identificador desconhecido")

evUnary(st, t) ==
    IF Len(st) < 1 THEN EvState(st, "operador unario sem operando")
    ELSE EvState(Append(Pop(st), opFn(t.val, Num(0), Top(st))), "")

\* evBinary, were the divisor not compared with zero
evBinaryUnguarded(st, t) ==
    IF Len(st) < 2 THEN [st |-> st, err |-> "operador binario com poucos operandos"]
    ELSE [st |-> Append(SubSeq(st, 1, Len(st) - 2), opFn(t.val, st[Len(st) - 1], st[Len(st)])),
          err |-> ""]

evBinary(st, t) ==
    IF Len(st) < 2 THEN EvState(st, "operador binario com poucos operandos")
    ELSE LET b == st[Len(st)]
             a == st[Len(st) - 1]
             rest == SubSeq(st, 1, Len(st) - 2)
         IN  IF t.val = opDiv /\ IsZero(b) THEN EvState(rest, "divisao por zero")
             ELSE EvState(Append(rest, opFn(t.val, a, b)), "")

evFunc(st, t) ==
    LET nargs == nargsOf(t.val) IN
    IF Len(st) < nargs THEN EvState(st, "funcao com poucos argumentos")
    ELSE LET args == SubSeq(st, Len(st) - nargs + 1, Len(st))
             rest == SubSeq(st, 1, Len(st) - nargs)
             r == functions(t.val, args)
         IN  IF r.err # "" THEN EvState(rest, r.err) ELSE EvState(Append(rest, r.val), "")

\* one iteration of the loop over the postfix tokens
evStep(s, t, ans) ==
    CASE t.typ = tNumber -> evNumber(s.st, t)
      [] t.typ = tIdent -> evIdent(s.st, t, ans)
      [] t.typ = tOp -> IF ops(t.val).unary THEN evUnary(s.st, t) ELSE evBinary(s.st, t)
      [] t.typ = tFunc -> evFunc(s.st, t)
      [] OTHER -> s

\* the loop over the first n postfix tokens; it returns at the first error
RECURSIVE evLoop(_, _, _)
evLoop(r, n, ans) ==
    IF n = 0 THEN EvState(<<>>, "")
    ELSE LET s == evLoop(r, n - 1, ans)
         IN  IF s.err # "" THEN s ELSE evStep(s, r[n], ans)

evalRPN(r, ans) ==
    LET s == evLoop(r, Len(r), ans)
    IN  IF s.err # "" THEN Fail(s.err)
        ELSE IF Len(s.st) # 1 THEN Fail("expressao invalida")
        ELSE Ok(s.st[1])

evalExpr(expr, ans) ==
    LET t == tokenize(expr)
        r == shuntingYard(t.toks)
    IN  IF t.err # "" THEN Fail(t.err)
        ELSE IF r.err # "" THEN Fail(r.err)
        ELSE evalRPN(r.rpn, ans)

(***************************************************************************)
(* Input lines. Str turns a sequence of words into the line they spell.    *)
(***************************************************************************)
RECURSIVE Str(_)
Str(ws) == IF ws = <<>> THEN <<>> ELSE Head(ws) \o Str(Tail(ws))

\* every sequence of at most n elements of S
RECURSIVE SeqsUpTo(_, _)
SeqsUpTo(S, n) ==
    IF n = 0 THEN {<<>>}
    ELSE LET shorter == SeqsUpTo(S, n - 1)
         IN  shorter \cup {Append(q, x) : q \in {r \in shorter : Len(r) = n - 1}, x \in S}

\* every line spelled by at most n words of W
LinesOver(W, n) == {Str(ws) : ws \in SeqsUpTo(W, n)}

\* the lines of a session: empty lines, meta-commands, failing and succeeding expressions
SessionLines ==
    { <<>>, <<" ">>, <<":", "q">>, <<":", "H">>, <<":", "x">>,
      <<"a", "n", "s">>, <<"a", "n", "s", "+", "2">>, <<"2", "*", "3">>,
      <<"1", "/", "0">>, <<"?">>, <<"(">> }

SessionStreams == SeqsUpTo(SessionLines, MaxLines)

OneLine(L) == {<<l>> : l \in L}

(***************************************************************************)
(* The REPL loop of main.                                                  *)
(***************************************************************************)
NoOut == [kind |-> "none", val |-> Num(0), msg |-> ""]

InitWith(streams) ==
    /\ stdin \in streams
    /\ pc = "prompt"
    /\ line = <<>>
    /\ toks = <<>>
    /\ rpn = <<>>
    /\ res = Num(0)
    /\ err = ""
    /\ lastAns = Num(0)
    /\ out = NoOut

\* in.Scan() returns false: break
ScanEOF ==
    /\ pc = "prompt"
    /\ stdin = <<>>
    /\ pc' = "exit"
    /\ UNCHANGED <<stdin, line, toks, rpn, res, err, lastAns, out>>

\* in.Scan() delivers a line
ScanLine ==
    /\ pc = "prompt"
    /\ stdin # <<>>
    /\ line' = TrimSpace(Head(stdin))
    /\ stdin' = Tail(stdin)
    /\ toks' = <<>>
    /\ rpn' = <<>>
    /\ res' = Num(0)
    /\ err' = ""
    /\ pc' = "dispatch"
    /\ UNCHANGED <<lastAns, out>>

EmptyLine ==
    /\ pc = "dispatch"
    /\ line = <<>>
    /\ pc' = "prompt"
    /\ UNCHANGED <<stdin, line, toks, rpn, res, err, lastAns, out>>

QuitCommands == {<<":", "q", "u", "i", "t">>, <<":", "q">>, <<":", "e", "x", "i", "t">>}

metaOutput(cmd) ==
    CASE cmd \in {<<":", "h", "e", "l", "p">>, <<":", "h">>} -> "help"
      [] cmd = <<":", "c", "o", "n", "s", "t">> -> "const"
      [] cmd = <<":", "f", "u", "n", "c">> -> "func"
      [] OTHER -> "Comando desconhecido"

MetaCommand ==
    /\ pc = "dispatch"
    /\ HasPrefix(line, <<":">>)
    /\ IF ToLower(line) \in QuitCommands
       THEN pc' = "exit" /\ out' = out
       ELSE pc' = "prompt" /\ out' = [kind |-> "meta", val |-> Num(0), msg |-> metaOutput(ToLower(line))]
    /\ UNCHANGED <<stdin, line, toks, rpn, res, err, lastAns>>

\* evalExpr: the call of tokenize
Tokenize ==
    /\ pc = "dispatch"
    /\ line # <<>>
    /\ ~HasPrefix(line, <<":">>)
    /\ LET t == tokenize(line)
       IN  /\ toks' = t.toks
           /\ err' = t.err
           /\ pc' = IF t.err # "" THEN "report" ELSE "parse"
    /\ UNCHANGED <<stdin, line, rpn, res, lastAns, out>>

\* evalExpr: the call of shuntingYard
ShuntingYard ==
    /\ pc = "parse"
    /\ LET r == shuntingYard(toks)
       IN  /\ rpn' = r.rpn
           /\ err' = r.err
           /\ pc' = IF r.err # "" THEN "report" ELSE "eval"
    /\ UNCHANGED <<stdin, line, toks, res, lastAns, out>>

\* evalExpr: the call of evalRPN
EvalRPN ==
    /\ pc = "eval"
    /\ LET r == evalRPN(rpn, lastAns)
       IN  /\ res' = r.val
           /\ err' = r.err
           /\ pc' = IF r.err # "" THEN "report" ELSE "store"
    /\ UNCHANGED <<stdin, line, toks, rpn, lastAns, out>>

\* ReportError, were lastAns assigned before err is looked at
ReportErrorStoring ==
    /\ pc = "report"
    /\ lastAns' = res
    /\ out' = [kind |-> "error", val |-> Num(0), msg |-> err]
    /\ pc' = "prompt"
    /\ UNCHANGED <<stdin, line, toks, rpn, res, err>>

\* err != nil: print the error and continue
ReportError ==
    /\ pc = "report"
    /\ out' = [kind |-> "error", val |-> Num(0), msg |-> err]
    /\ pc' = "prompt"
    /\ UNCHANGED <<stdin, line, toks, rpn, res, err, lastAns>>

\* lastAns = res; print the result
StoreResult ==
    /\ pc = "store"
    /\ lastAns' = res
    /\ out' = [kind |-> "result", val |-> res, msg |-> ""]
    /\ pc' = "prompt"
    /\ UNCHANGED <<stdin, line, toks, rpn, res, err>>

Next ==
    \/ ScanEOF
    \/ ScanLine
    \/ EmptyLine
    \/ MetaCommand
    \/ Tokenize
    \/ ShuntingYard
    \/ EvalRPN
    \/ ReportError
    \/ StoreResult

Init == InitWith(SessionStreams)

Spec == Init /\ [][Next]_vars

(***************************************************************************)
(* Well-formed infix expressions, generated by the grammar                 *)
(*   e ::= numeral | ( e ) | e binop e | unop e                            *)
(* WFExprs(N, B, U, n) is the set of those spelled with exactly n tokens.  *)
(***************************************************************************)
RECURSIVE WFExprs(_, _, _, _)
WFExprs(N, B, U, n) ==
    IF n <= 0 THEN {}
    ELSE IF n = 1 THEN N
    ELSE {<<"(">> \o e \o <<")">> : e \in WFExprs(N, B, U, n - 2)}
         \cup {<<u>> \o e : u \in U, e \in WFExprs(N, B, U, n - 1)}
         \cup UNION {{a \o <<b>> \o c : a \in WFExprs(N, B, U, k), b \in B,
                                        c \in WFExprs(N, B, U, n - 1 - k)} : k \in 1..(n - 2)}

WFUpTo(N, B, U, n) == UNION {WFExprs(N, B, U, k) : k \in 1..n}

\* the examples of the documentation
ArithExamples ==
    { <<"2", "+", "2", "*", "3">>, <<"2", "^", "3", "^", "2">>,
      <<"1", "0", "-", "3", "-", "2">>, <<"(", "1", "+", "2", ")", "^", "3", "/", "9">> }

ArithLines ==
    WFUpTo({<<"2">>, <<"3">>}, {"+", "-", "*", "/", "^"}, {}, MaxTokens) \cup ArithExamples

SignExamples == { <<"-", "3", "+", "4">>, <<"3", "*", "-", "2">>, <<"-", "-", "3">> }

SignLines ==
    WFUpTo({<<"2">>, <<"3">>}, {"+", "-", "*", "^"}, {"-", "+"}, MaxSignTokens)
        \cup LinesOver({<<"-">>, <<"+">>, <<"2">>, <<"(">>, <<")">>, <<",">>}, MaxChars)
        \cup SignExamples

\* one-line sessions that take every branch of the loop
CoverStreams == OneLine(SessionLines)

InitArith == InitWith(CoverStreams \cup OneLine(ArithLines))
SpecArith == InitArith /\ [][Next]_vars

InitSign == InitWith(CoverStreams \cup OneLine(SignLines))
SpecSign == InitSign /\ [][Next]_vars

(***************************************************************************)
(* Standard arithmetic, as a recursive-descent evaluation of the grammar   *)
(*   Sum  ::= Prod { [+ or -] Prod }     left to right                     *)
(*   Prod ::= Powr { [* or /] Powr }     left to right                     *)
(*   Powr ::= Unry [ ^ Powr ]            right to left                     *)
(*   Unry ::= [+ or -] Unry | Atom                                         *)
(*   Atom ::= numeral | ( Sum )                                            *)
(* over the symbols of the line. A result is [ok, undef, v, i]: parsed,    *)
(* some division had a zero divisor, the value, the next index.            *)
(***************************************************************************)
\* the symbol a token was read from
Symbol(t) == IF t.typ = tOp THEN t.val[Len(t.val)] ELSE IF t.typ = tNumber THEN "n" ELSE t.val[1]

RefRes(ok, undef, v, i) == [ok |-> ok, undef |-> undef, v |-> v, i |-> i]
RefBad == RefRes(FALSE, FALSE, Num(0), 0)

IsSym(ts, i, S) == i <= Len(ts) /\ ts[i].typ \in {tOp, tLParen, tRParen} /\ Symbol(ts[i]) \in S

RefApply(o, l, r, i) ==
    RefRes(TRUE, l.undef \/ r.undef \/ (o = "/" /\ IsZero(r.v)),
           CASE o = "+" -> Add(l.v, r.v) [] o = "-" -> Sub(l.v, r.v)
             [] o = "*" -> Mul(l.v, r.v) [] o = "/" -> Div(l.v, r.v)
             [] o = "^" -> Pow(l.v, r.v),
           i)

RECURSIVE RefSum(_, _), RefSumTail(_, _), RefProd(_, _), RefProdTail(_, _),
          RefPowr(_, _), RefUnry(_, _), RefAtom(_, _)

RefAtom(ts, i) ==
    IF i > Len(ts) THEN RefBad
    ELSE IF ts[i].typ = tNumber
         THEN LET p == ParseFloat(ts[i].val)
              IN  IF p.err # "" THEN RefBad ELSE RefRes(TRUE, FALSE, p.val, i + 1)
    ELSE IF ts[i].typ = tLParen
         THEN LET r == RefSum(ts, i + 1)
              IN  IF r.ok /\ IsSym(ts, r.i, {")"}) THEN [r EXCEPT !.i = r.i + 1] ELSE RefBad
    ELSE RefBad

RefUnry(ts, i) ==
    IF IsSym(ts, i, {"+", "-"})
    THEN LET r == RefUnry(ts, i + 1)
         IN  IF ~r.ok THEN RefBad
             ELSE IF Symbol(ts[i]) = "-" THEN [r EXCEPT !.v = Neg(r.v)] ELSE r
    ELSE RefAtom(ts, i)

RefPowr(ts, i) ==
    LET l == RefUnry(ts, i)
    IN  IF l.ok /\ IsSym(ts, l.i, {"^"})
        THEN LET r == RefPowr(ts, l.i + 1)
             IN  IF r.ok THEN RefApply("^", l, r, r.i) ELSE RefBad
        ELSE l

\* l is the product read so far
RefProdTail(ts, l) ==
    IF l.ok /\ IsSym(ts, l.i, {"*", "/"})
    THEN LET r == RefPowr(ts, l.i + 1)
         IN  IF r.ok THEN RefProdTail(ts, RefApply(Symbol(ts[l.i]), l, r, r.i)) ELSE RefBad
    ELSE l

RefProd(ts, i) == RefProdTail(ts, RefPowr(ts, i))

\* l is the sum read so far
RefSumTail(ts, l) ==
    IF l.ok /\ IsSym(ts, l.i, {"+", "-"})
    THEN LET r == RefProd(ts, l.i + 1)
         IN  IF r.ok THEN RefSumTail(ts, RefApply(Symbol(ts[l.i]), l, r, r.i)) ELSE RefBad
    ELSE l

RefSum(ts, i) == RefSumTail(ts, RefProd(ts, i))

\* the standard value of the whole token sequence
RefValue(ts) == RefSum(ts, 1)
WellFormed(ts) == RefValue(ts).ok /\ RefValue(ts).i = Len(ts) + 1

SignPrefix(ts, i) == IsSym(ts, i, {"+", "-"}) /\ (i = 1 \/ ts[i - 1].typ \in {tOp, tLParen})

\* evalExpr has returned for the current line
Returned == pc \in {"report", "store"}

LineIs(l) == line = l /\ Returned

\* C1: a well-formed expression of numerals, parentheses and the binary operators
\* evaluates to its standard arithmetic value (precedence ^ over * / over + -,
\* + - * / left to right, ^ right to left, parentheses first).
C1_StandardArithmetic ==
    (Returned /\ WellFormed(toks) /\ ~(\E i \in DOMAIN toks : SignPrefix(toks, i))
              /\ ~RefValue(toks).undef)
        => (pc = "store" /\ res = RefValue(toks).v)

C1_Witness ==
    /\ LineIs(<<"2", "^", "3", "^", "2">>)
    /\ pc = "store"
    /\ res = Num(512)

\* C8: a + or - is unary exactly when it is the first token or follows an
\* operator or a left parenthesis; unary operators bind tighter than every
\* binary operator and chain right to left, so a well-formed expression with
\* signs evaluates to its standard value (-3+4 = 1, 3*-2 = -6, --3 = 3).
C8_SignHandling ==
    /\ \A i \in DOMAIN toks :
          IsSym(toks, i, {"+", "-"}) /\ toks[i].typ = tOp
              => (ops(toks[i].val).unary <=> (i = 1 \/ toks[i - 1].typ \in {tOp, tLParen}))
    /\ (Returned /\ WellFormed(toks) /\ ~RefValue(toks).undef)
          => (pc = "store" /\ res = RefValue(toks).v)

C8_Witness ==
    /\ LineIs(<<"-", "-", "3">>)
    /\ toks = <<token(tOp, opNeg), token(tOp, opNeg), token(tNumber, <<"3">>)>>
    /\ res = Num(3)

\* C6: when evalRPN comes to a binary / with a zero on top of the stack, the
\* evaluation ends there with the division-by-zero error, the quotient is not
\* pushed, and evalExpr returns the error and no value.
C6_DivisionByZero ==
    Returned =>
        \A k \in DOMAIN rpn :
            LET s == evLoop(rpn, k - 1, lastAns)
            IN  (/\ s.err = ""
                 /\ rpn[k] = token(tOp, opDiv)
                 /\ Len(s.st) >= 2
                 /\ IsZero(Top(s.st)))
                    => /\ evStep(s, rpn[k], lastAns).err = "divisao por zero"
                       /\ Len(evStep(s, rpn[k], lastAns).st) = Len(s.st) - 2
                       /\ pc = "report"
                       /\ err = "divisao por zero"
                       /\ res = Num(0)

C6_Witness ==
    /\ LineIs(<<"2", "/", "(", "3", "-", "3", ")">>)
    /\ rpn # <<>>
    /\ err = "divisao por zero"

\* the line in hand is an expression (neither empty nor a meta-command)
IsExpression == line # <<>> /\ ~HasPrefix(line, <<":">>)

\* this step ends the handling of a line
EndsLine == pc # "prompt" /\ pc' \in {"prompt", "exit"}

\* C7: lastAns starts at 0; the step that ends a line sets it to the line's
\* result when the line is an expression that evaluates, and no other step
\* changes it (failing lines, empty lines, meta-commands); ans in a line
\* evaluates to the value carried at that time.
C7_LastAnsCarried ==
    /\ lastAns = Num(0)
    /\ [][ /\ IF EndsLine /\ IsExpression /\ evalExpr(line, lastAns).err = ""
              THEN lastAns' = evalExpr(line, lastAns).val /\ out'.kind = "result"
              ELSE lastAns' = lastAns
           /\ (pc' = "store" /\ line' = idAns) => res' = lastAns
         ]_vars

\* a line fails after two lines that evaluated, and the carried value stays
C7_Witness ==
    /\ pc = "prompt"
    /\ out.kind = "error"
    /\ line = <<"?">>
    /\ lastAns = Num(8)

(***************************************************************************)
(* Parentheses, commas and malformed input.                                *)
(***************************************************************************)
ParenLines == LinesOver({<<"(">>, <<")">>, <<"1">>, <<"+">>, <<",">>, fMax}, MaxChars)

InitParens == InitWith(CoverStreams \cup OneLine(ParenLines))
SpecParens == InitParens /\ [][Next]_vars

\* the number of left parentheses minus the number of right ones in ts[1..n]
RECURSIVE Depth(_, _)
Depth(ts, n) ==
    IF n = 0 THEN 0
    ELSE Depth(ts, n - 1) + (IF ts[n].typ = tLParen THEN 1 ELSE IF ts[n].typ = tRParen THEN -1 ELSE 0)

Balanced(ts) == Depth(ts, Len(ts)) = 0 /\ \A n \in DOMAIN ts : Depth(ts, n) >= 0

\* tokenize has returned the tokens of the line and shuntingYard has run on them
Parsed == pc \in {"eval", "report", "store"} /\ toks # <<>>

\* C5: a token sequence with a ')' that closes nothing or a '(' never closed
\* makes shuntingYard fail, so that evalExpr returns an error and no result.
C5_UnbalancedRejected ==
    (Parsed /\ ~Balanced(toks))
        => /\ shuntingYard(toks).err # ""
           /\ pc = "report"
           /\ rpn = <<>>
           /\ err = shuntingYard(toks).err

C5_Witness ==
    /\ LineIs(<<"(", "1", "+", "1">>)
    /\ pc = "report"
    /\ err = "parenteses desbalanceados"

MalformedLines == LinesOver({<<"1">>, <<"2">>, <<"+">>, <<"*">>, <<" ">>}, MaxChars)

InitMalformed == InitWith(CoverStreams \cup OneLine(MalformedLines))
SpecMalformed == InitMalformed /\ [][Next]_vars

EndsWithOperator(ts) == ts # <<>> /\ ts[Len(ts)].typ = tOp
AdjacentNumerals(ts) == \E i \in 1..(Len(ts) - 1) : ts[i].typ = tNumber /\ ts[i + 1].typ = tNumber

\* C4: a line whose last token is an operator, or in which two numerals stand
\* next to each other, makes evalExpr return an error and never a value.
C4_MalformedRejected ==
    (Returned /\ (EndsWithOperator(toks) \/ AdjacentNumerals(toks))) => pc = "report"

CommaLines ==
    LinesOver({<<"(">>, <<")">>, <<"1">>, <<"+">>, <<",">>, fMax}, MaxChars)

InitComma == InitWith(CoverStreams \cup OneLine(CommaLines))
SpecComma == InitComma /\ [][Next]_vars

\* the index of the left parenthesis that encloses position k, or 0
RECURSIVE Enclosing(_, _, _)
Enclosing(ts, j, closed) ==
    IF j = 0 THEN 0
    ELSE IF ts[j].typ = tRParen THEN Enclosing(ts, j - 1, closed + 1)
    ELSE IF ts[j].typ = tLParen
         THEN (IF closed = 0 THEN j ELSE Enclosing(ts, j - 1, closed - 1))
    ELSE Enclosing(ts, j - 1, closed)

\* the comma at k is not in the argument list of a function call
CommaOutsideCall(ts, k) ==
    /\ ts[k].typ = tComma
    /\ LET p == Enclosing(ts, k - 1, 0) IN p = 0 \/ p = 1 \/ ts[p - 1].typ # tFunc

\* the tokens the step on ts[k] appends to the output
MovedBy(ts, k) ==
    LET s == syLoop(ts, k - 1)
        o == syStep(s, ts[k]).output
    IN  {o[i] : i \in (Len(s.output) + 1)..Len(o)}

\* C10: on token sequences with balanced parentheses, a comma outside the
\* argument list of a function call makes shuntingYard fail with the
\* separator error, and a comma moves only operator tokens to the output.
C10_CommaOutsideCall ==
    (Parsed /\ Balanced(toks)) =>
        \A k \in DOMAIN toks :
            /\ CommaOutsideCall(toks, k) => (pc = "report" /\ err = "virgula fora de funcao")
            /\ (toks[k].typ = tComma /\ syLoop(toks, k - 1).err = "")
                   => \A t \in MovedBy(toks, k) : t.typ = tOp

(***************************************************************************)
(* Numerals.                                                               *)
(***************************************************************************)
NumeralLines == LinesOver({<<"1">>, <<".">>, <<"e">>, <<"E">>, <<"-">>, <<"+">>}, MaxChars)

InitNumerals == InitWith(CoverStreams \cup OneLine(NumeralLines))
SpecNumerals == InitNumerals /\ [][Next]_vars

AllDigits(s) == \A i \in DOMAIN s : IsDigit(s[i])

\* digits with at most one decimal point, one digit at least
IsMantissa(m) ==
    /\ \A i \in DOMAIN m : IsDigit(m[i]) \/ m[i] = "."
    /\ Cardinality({i \in DOMAIN m : m[i] = "."}) <= 1
    /\ \E i \in DOMAIN m : IsDigit(m[i])

\* nothing, or e/E, an optional sign and one digit at least
IsExponent(x) ==
    \/ x = <<>>
    \/ /\ Head(x) \in {"e", "E"}
       /\ LET r == Tail(x)
              d == IF r # <<>> /\ Head(r) \in {"+", "-"} THEN Tail(r) ELSE r
          IN  d # <<>> /\ AllDigits(d)

\* the numeral grammar
FitsNumeralGrammar(s) ==
    \E k \in 0..Len(s) : IsMantissa(SubSeq(s, 1, k)) /\ IsExponent(SubSeq(s, k + 1, Len(s)))

\* what the numeral scan can emit: a digit or '.' first, then digits, points
\* and at most one exponent marker, a sign only right after the marker
NumeralShape(s) ==
    /\ s # <<>>
    /\ IsDigit(s[1]) \/ s[1] = "."
    /\ \A i \in DOMAIN s : IsDigit(s[i]) \/ s[i] \in {".", "e", "E", "+", "-"}
    /\ Cardinality({i \in DOMAIN s : s[i] \in {"e", "E"}}) <= 1
    /\ \A i \in DOMAIN s : s[i] \in {"+", "-"} => (i > 1 /\ s[i - 1] \in {"e", "E"})

Numerals(ts) == {ts[i].val : i \in {j \in DOMAIN ts : ts[j].typ = tNumber}}

SyntaxError == "strconv.ParseFloat: invalid syntax"

\* C9 as stated: every Number token fits the numeral grammar, and evalRPN
\* never reports a numeral-parse error.
C9_NumeralsFitGrammar ==
    /\ \A v \in Numerals(toks) : FitsNumeralGrammar(v)
    /\ err # SyntaxError

\* C9 amended: every Number token has the shape of the numeral scan; one
\* that does not fit the numeral grammar makes evalExpr return an error and
\* never a value, and evalRPN reports the numeral-parse error only for a
\* token that does not fit the grammar.
C9_MalformedNumeralsRejected ==
    /\ \A v \in Numerals(toks) : NumeralShape(v)
    /\ (Returned /\ \E v \in Numerals(toks) : ~FitsNumeralGrammar(v)) => pc = "report"
    /\ err = SyntaxError => \E v \in Numerals(toks) : ~FitsNumeralGrammar(v)

C9_Witness ==
    /\ LineIs(<<"1", ".", "1", ".", "1">>)
    /\ toks = <<token(tNumber, <<"1", ".", "1", ".", "1">>)>>
    /\ pc = "report"
    /\ err = SyntaxError

(***************************************************************************)
(* Calls of max and min.                                                   *)
(***************************************************************************)
ArgDigits == {"2", "3", "4", "9"}
ArgSigns == {<<>>, <<"-">>, <<"+">>}

\* f(x,y) with optional signs and an optional space after the comma
Call2(f, sx, x, sp, sy, y) == f \o <<"(">> \o sx \o <<x>> \o <<",">> \o sp \o sy \o <<y>> \o <<")">>

MaxMinLines ==
    {Call2(f, sx, x, sp, sy, y) : f \in {fMax, fMin}, sx \in ArgSigns, x \in ArgDigits,
                                  sp \in {<<>>, <<" ">>}, sy \in ArgSigns, y \in ArgDigits}

InitMaxMin == InitWith(CoverStreams \cup OneLine(MaxMinLines))
SpecMaxMin == InitMaxMin /\ [][Next]_vars

Signed(sg, x) == IF sg = <<"-">> THEN Num(-DigitVal(x)) ELSE Num(DigitVal(x))
Larger(a, b) == IF Less(a, b) THEN b ELSE a
Smaller(a, b) == IF Less(b, a) THEN b ELSE a

\* C2: max(x,y) evaluates to the larger and min(x,y) to the smaller of two
\* numerals with optional leading signs (max(3,9) = 9, min(4,-2) = -2).
C2_MaxMinOfSigned ==
    \A sx \in ArgSigns, x \in ArgDigits, sp \in {<<>>, <<" ">>}, sy \in ArgSigns, y \in ArgDigits :
        /\ LineIs(Call2(fMax, sx, x, sp, sy, y))
              => (pc = "store" /\ res = Larger(Signed(sx, x), Signed(sy, y)))
        /\ LineIs(Call2(fMin, sx, x, sp, sy, y))
              => (pc = "store" /\ res = Smaller(Signed(sx, x), Signed(sy, y)))

AffixLines == LinesOver({<<"1">>, <<"+">>, <<"(">>, <<")">>, <<",">>}, MaxAffix)

\* max(3) and min(3) with something before and after
SingleArgLines ==
    {a \o f \o <<"(", "3", ")">> \o b : a \in AffixLines, f \in {fMax, fMin}, b \in AffixLines}

InitArity == InitWith(CoverStreams \cup OneLine(SingleArgLines))
SpecArity == InitArity /\ [][Next]_vars

\* ts[i] is max or min followed by ( one token )
SingleArgCall(ts, i) ==
    /\ i + 3 <= Len(ts)
    /\ ts[i].typ = tFunc /\ ts[i].val \in {fMax, fMin}
    /\ ts[i + 1].typ = tLParen
    /\ ts[i + 2].typ = tNumber
    /\ ts[i + 3].typ = tRParen

\* C3: a line that calls max or min with a single argument makes evalExpr
\* return an error and never a value, whatever stands before or after the call.
C3_ArityEnforced ==
    (Returned /\ \E i \in DOMAIN toks : SingleArgCall(toks, i)) => pc = "report"

====
